---- MODULE Spec2Model ----
(***************************************************************************)
(* Model of the build-file parsing subsystem of the Apache Ant Manager     *)
(* extension: AntParserService (cache, structured Java tier, regex-based   *)
(* fallback with import/include resolution).                               *)
(*                                                                         *)
(* The specifications share the variables:                                 *)
(*   XmlSpec - one fallback parse (parseWithXml / parseXmlFile) executed   *)
(*             step by step over a file system drawn at Init;              *)
(*   Spec    - the facade parseBuildFile with its cache, the child process *)
(*             of the Java tier, the clock and clearCache, with several    *)
(*             overlapping calls;                                          *)
(*   JavaSpec - one run of the Java parser process (AntParser.main).       *)
(***************************************************************************)
EXTENDS Integers, Sequences, FiniteSets, TLC

(***************************************************************************)
(* Bounds of the model.                                                    *)
(***************************************************************************)
\* number of elements (targets, directives) in the root build file
MaxRootLen == 3
\* number of elements in an imported file
MaxImpLen == 1
\* number of elements in the root build file where termination is checked
MaxCycleLen == 2
\* number of parseBuildFile calls in one behaviour of Spec
MaxCalls == 2
\* the clock advances in steps of TickMs milliseconds up to MaxNow
TickMs == 15000
MaxNow == 30000

(***************************************************************************)
(* Paths.  An absolute path is the sequence of its segments; a reference   *)
(* written in a file attribute is [abs, segs], where segs may hold "..".   *)
(***************************************************************************)
\* path.resolve's normalisation of a segment list: ".." drops the last
\* segment kept so far, "." is dropped
RECURSIVE NormalizeFrom(_, _)
NormalizeFrom(acc, segs) ==
    IF segs = <<>> THEN acc
    ELSE LET s == Head(segs) IN
         IF s = "." THEN NormalizeFrom(acc, Tail(segs))
         ELSE IF s = ".."
              THEN NormalizeFrom(IF acc = <<>> THEN acc
                                 ELSE SubSeq(acc, 1, Len(acc) - 1), Tail(segs))
              ELSE NormalizeFrom(Append(acc, s), Tail(segs))

\* path.resolve(p) for an absolute p
ResolveAbs(segs) == NormalizeFrom(<<>>, segs)

\* path.resolve(dir, rel)
ResolveIn(dir, segs) == NormalizeFrom(<<>>, dir \o segs)

\* path.dirname of a normalised absolute path
Dirname(p) == IF p = <<>> THEN p ELSE SubSeq(p, 1, Len(p) - 1)

FileA == <<"r", "a">>
FileB == <<"r", "b">>
FileC == <<"r", "sub", "c">>
Files == {FileA, FileB, FileC}

RefB    == [abs |-> FALSE, segs |-> <<"b">>]
RefC    == [abs |-> FALSE, segs |-> <<"sub", "c">>]
RefUpA  == [abs |-> FALSE, segs |-> <<"..", "a">>]
RefUpB  == [abs |-> FALSE, segs |-> <<"..", "b">>]
RefAbsA == [abs |-> TRUE,  segs |-> <<"r", "sub", "..", "a">>]

(***************************************************************************)
(* File contents.  A file is the sequence of the elements the two regular  *)
(* expressions of parseXmlFile can see, in document order:                 *)
(*   kind "self"   <target .../>          (self-closing target)            *)
(*   kind "body"   <target ...> ... </target>                              *)
(*   kind "import" <import .../> or <include .../>                         *)
(* name, file and depends are optional attributes: <<>> when absent, <<v>>  *)
(* else.  The value of depends is a string, a sequence of characters.      *)
(***************************************************************************)
Names == {"build", "Clean"}

\* String.prototype.localeCompare orders letters before case
LocaleRank(n) == CASE n = ""      -> 0
                   [] n = "build" -> 1
                   [] n = "Clean" -> 2
                   [] n = "dist"  -> 3
                   [] OTHER       -> 4

SelfT(n) == [kind |-> "self", name |-> <<n>>, file |-> <<>>, depends |-> <<>>]
BodyT(n) == [kind |-> "body", name |-> <<n>>, file |-> <<>>, depends |-> <<>>]
Anon     == [kind |-> "body", name |-> <<>>, file |-> <<>>, depends |-> <<>>]
Imp(r)   == [kind |-> "import", name |-> <<>>, file |-> <<r>>, depends |-> <<>>]
IncNoFile == [kind |-> "import", name |-> <<>>, file |-> <<>>, depends |-> <<>>]

SeqsUpTo(S, n) == UNION {[1..k -> S] : k \in 0..n}

\* the <project ...> opening tag: present is FALSE when the file has no
\* <project ...> tag the regular expression matches
NoProject == [present |-> FALSE, name |-> <<>>, default |-> <<>>, basedir |-> <<>>]
Project(n, d) == [present |-> TRUE, name |-> <<n>>, default |-> d, basedir |-> <<>>]

MissingFile == [exists |-> FALSE, project |-> NoProject, elems |-> <<>>]
File(p, es) == [exists |-> TRUE, project |-> p, elems |-> es]

RootAlphabet == {SelfT("Clean"), BodyT("build"), Imp(RefB), Imp(RefC), Imp(RefAbsA)}
BAlphabet == {BodyT("build"), Anon, Imp(RefC), Imp(RefAbsA)}

\* the third project tag has no name attribute, a default that names no
\* target, and a basedir attribute
RootProjects == {NoProject, Project("Demo", <<"build">>),
                 [present |-> TRUE, name |-> <<>>, default |-> <<"dist">>,
                  basedir |-> <<RefC>>]}

\* an imported file declares project attributes of its own
ImportedProject == [present |-> TRUE, name |-> <<"Lib">>, default |-> <<"Clean">>,
                    basedir |-> <<RefC>>]

RootFiles == {MissingFile} \cup
             {File(p, es) : p \in RootProjects, es \in SeqsUpTo(RootAlphabet, MaxRootLen)}
BFiles == {MissingFile} \cup
          {File(ImportedProject, es) : es \in SeqsUpTo(BAlphabet, MaxImpLen)}
\* BodyT("") is <target name=""> ... </target>: the name attribute is
\* written and its value is the empty string
CFiles == {MissingFile, File(ImportedProject, <<BodyT("")>>),
           File(ImportedProject, <<BodyT("build")>>),
           File(ImportedProject, <<IncNoFile>>),
           File(ImportedProject, <<Imp(RefUpA)>>),
           File(ImportedProject, <<Imp(RefUpB)>>)}

FileSystem(a, b, c) ==
    [f \in Files |-> IF f = FileA THEN a ELSE IF f = FileB THEN b ELSE c]

\* the file systems one fallback parse is checked on
XmlFileSystems == {FileSystem(a, b, c) : a \in RootFiles, b \in BFiles, c \in CFiles}

\* the file systems the termination of the walk is checked on: every
\* import graph over the three files, cycles included
CycleAlphabet == {BodyT("build"), Imp(RefB), Imp(RefC), Imp(RefAbsA)}
CycleFileSystems ==
    {FileSystem(File(NoProject, es), b, c) :
        es \in SeqsUpTo(CycleAlphabet, MaxCycleLen), b \in BFiles, c \in CFiles}

\* fs.readFile succeeds
Readable(fs, p) == p \in Files /\ fs[p].exists

(***************************************************************************)
(* AntBuildInfo and AntTarget values.  null is the string "null"; the      *)
(* description attribute of the declaration at position i of file f is     *)
(* the pair [file |-> f, idx |-> i], so that two declarations of one name  *)
(* differ in their fields.                                                 *)
(***************************************************************************)
NullDesc == [file |-> <<>>, idx |-> 0]

\* the object literal of parseWithXml
EmptyBuildInfo(buildFilePath) ==
    [projectName |-> "", defaultTarget |-> "", baseDir |-> Dirname(buildFilePath),
     description |-> "null", buildFile |-> buildFilePath, targets |-> <<>>]

(***************************************************************************)
(* The target regular expression                                           *)
(*   <target\s+ ( [^>]* ) (?: \/> | > [\s\S]*? <\/target> )   (flags gi)    *)
(* on a sequence of elements.  [^>]* is greedy and takes the "/" of a      *)
(* self-closing tag; the first alternative then fails on ">", the second   *)
(* matches ">" and runs lazily to the first "</target>" of the rest of the *)
(* text.  So a match that starts at a self-closing target extends through  *)
(* the next target with a body when there is one, and the scan resumes     *)
(* after it; only when no "</target>" follows does the engine backtrack to *)
(* the "/>" alternative.  TargetMatches is the sequence of the positions   *)
(* where a match starts (capture group 1 is that element's attributes).    *)
(***************************************************************************)
RECURSIVE FirstBodyFrom(_, _)
FirstBodyFrom(elems, i) ==
    IF i > Len(elems) THEN 0
    ELSE IF elems[i].kind = "body" THEN i
    ELSE FirstBodyFrom(elems, i + 1)

RECURSIVE TargetMatches(_, _)
TargetMatches(elems, i) ==
    IF i > Len(elems) THEN <<>>
    ELSE IF elems[i].kind = "body" THEN <<i>> \o TargetMatches(elems, i + 1)
    ELSE IF elems[i].kind = "self"
         THEN LET j == FirstBodyFrom(elems, i + 1) IN
              IF j = 0 THEN <<i>> \o TargetMatches(elems, i + 1)
              ELSE <<i>> \o TargetMatches(elems, j + 1)
    ELSE TargetMatches(elems, i + 1)

(***************************************************************************)
(* The depends attribute.  A string is the sequence of its characters.     *)
(***************************************************************************)
\* length of the depends strings
MaxDepLen == 3

DepChars == {"a", "b", ",", " "}

\* the depends attribute of a target: absent, or a string
DepAttrs == {<<>>} \cup {<<str>> : str \in SeqsUpTo(DepChars, MaxDepLen)}

\* String.prototype.split(','): the pieces between the commas; the empty
\* string gives one empty piece
RECURSIVE SplitFrom(_, _)
SplitFrom(piece, str) ==
    IF str = <<>> THEN <<piece>>
    ELSE IF Head(str) = "," THEN <<piece>> \o SplitFrom(<<>>, Tail(str))
    ELSE SplitFrom(Append(piece, Head(str)), Tail(str))

Split(str) == SplitFrom(<<>>, str)

\* String.prototype.trim
RECURSIVE TrimStart(_)
TrimStart(str) ==
    IF str # <<>> /\ Head(str) = " " THEN TrimStart(Tail(str)) ELSE str

RECURSIVE TrimEnd(_)
TrimEnd(str) ==
    IF str # <<>> /\ str[Len(str)] = " " THEN TrimEnd(SubSeq(str, 1, Len(str) - 1))
    ELSE str

Trim(str) == TrimEnd(TrimStart(str))

\* dependsMatch ? dependsMatch[1].split(',').map(d => d.trim()) : []
Dependencies(dependsMatch) ==
    IF dependsMatch = <<>> THEN <<>>
    ELSE LET pieces == Split(dependsMatch[1]) IN
         [k \in 1..Len(pieces) |-> Trim(pieces[k])]

\* buildInfo.targets.some(t => t.name === targetName)
HasTarget(targets, n) == \E k \in 1..Len(targets) : targets[k].name = n

\* PushTarget without the check for a target of the same name
PushTarget_NoNameCheck(info, file, elems, i) ==
    LET nameMatch == elems[i].name IN
    IF nameMatch = <<>> THEN info
    ELSE [info EXCEPT !.targets = Append(@,
             [name |-> nameMatch[1],
              description |-> [file |-> file, idx |-> i],
              dependencies |-> Dependencies(elems[i].depends),
              ifCondition |-> "null",
              unlessCondition |-> "null",
              isDefault |-> (nameMatch[1] = info.defaultTarget)])]

\* the body of the while loop over the target matches, for one match
PushTarget(info, file, elems, i) ==
    LET nameMatch == elems[i].name IN
    IF nameMatch = <<>> THEN info
    ELSE LET targetName == nameMatch[1] IN
         IF HasTarget(info.targets, targetName) THEN info
         ELSE [info EXCEPT !.targets = Append(@,
                  [name |-> targetName,
                   description |-> [file |-> file, idx |-> i],
                   dependencies |-> Dependencies(elems[i].depends),
                   ifCondition |-> "null",
                   unlessCondition |-> "null",
                   isDefault |-> (targetName = info.defaultTarget)])]

RECURSIVE PushTargets(_, _, _, _)
PushTargets(info, file, elems, matches) ==
    IF matches = <<>> THEN info
    ELSE PushTargets(PushTarget(info, file, elems, Head(matches)),
                     file, elems, Tail(matches))

\* ProjectAttrs resetting the field of an attribute the tag does not have
ProjectAttrs_AbsentResetsField(info, fileDir, project) ==
    IF ~project.present THEN info
    ELSE [info EXCEPT
            !.projectName = IF project.name = <<>> THEN "" ELSE project.name[1],
            !.defaultTarget = IF project.default = <<>> THEN "" ELSE project.default[1],
            !.baseDir = IF project.basedir = <<>> THEN <<>>
                        ELSE IF project.basedir[1].abs
                             THEN ResolveAbs(project.basedir[1].segs)
                             ELSE ResolveIn(fileDir, project.basedir[1].segs)]

\* the project attributes, read from the main build file only
ProjectAttrs(info, fileDir, project) ==
    IF ~project.present THEN info
    ELSE [info EXCEPT
            !.projectName = IF project.name = <<>> THEN @ ELSE project.name[1],
            !.defaultTarget = IF project.default = <<>> THEN @ ELSE project.default[1],
            !.baseDir = IF project.basedir = <<>> THEN @
                        ELSE IF project.basedir[1].abs
                             THEN ResolveAbs(project.basedir[1].segs)
                             ELSE ResolveIn(fileDir, project.basedir[1].segs)]

(***************************************************************************)
(* One fallback parse as a walk.  stack holds one frame per parseXmlFile   *)
(* invocation that is suspended at an await: phase "read" waits for        *)
(* fs.readFile, phase "imports" is inside the loop over the import and     *)
(* include directives, pos being the element the import regular            *)
(* expression resumes from.  processed is processedFiles, info the shared  *)
(* buildInfo, readLog the paths handed to fs.readFile, in order.           *)
(***************************************************************************)
Frame(p, ph, i) == [path |-> p, phase |-> ph, pos |-> i]

IdleWalk == [stack |-> <<>>, processed |-> {}, info |-> EmptyBuildInfo(<<>>),
             readLog |-> <<>>]

Top(w) == w.stack[Len(w.stack)]
Pop(w) == [w EXCEPT !.stack = SubSeq(@, 1, Len(@) - 1)]

\* EnterFile with the visited check made on the path as written, before it
\* is normalised
EnterFile_RawVisitedCheck(w, filePath) ==
    LET normalizedPath == ResolveAbs(filePath) IN
    IF filePath \in w.processed THEN w
    ELSE [w EXCEPT !.processed = @ \cup {normalizedPath},
                   !.readLog = Append(@, normalizedPath),
                   !.stack = Append(@, [path |-> normalizedPath, phase |-> "read",
                                        pos |-> 1])]

\* parseXmlFile from its entry to its first await: the visited check on the
\* normalised path, then the readFile request
EnterFile(w, filePath) ==
    LET normalizedPath == ResolveAbs(filePath) IN
    IF normalizedPath \in w.processed THEN w
    ELSE [w EXCEPT !.processed = @ \cup {normalizedPath},
                   !.readLog = Append(@, normalizedPath),
                   !.stack = Append(@, Frame(normalizedPath, "read", 1))]

\* AfterRead reading the project attributes of every file, imported or not
AfterRead_ProjectOfEveryFile(fs, w) ==
    LET f == w.stack[Len(w.stack)].path IN
    IF ~Readable(fs, f) THEN [w EXCEPT !.stack = SubSeq(@, 1, Len(@) - 1)]
    ELSE LET info1 == ProjectAttrs(w.info, Dirname(f), fs[f].project)
             info2 == PushTargets(info1, f, fs[f].elems,
                                  TargetMatches(fs[f].elems, 1))
         IN [w EXCEPT !.info = info2,
                      !.stack[Len(w.stack)] = [path |-> f, phase |-> "imports",
                                               pos |-> 1]]

\* parseXmlFile after readFile has settled: on an error return; otherwise
\* the project attributes (main file only) and the loop over the targets
AfterRead(fs, w) ==
    LET f == Top(w).path IN
    IF ~Readable(fs, f) THEN Pop(w)
    ELSE LET info1 == IF Cardinality(w.processed) = 1
                      THEN ProjectAttrs(w.info, Dirname(f), fs[f].project)
                      ELSE w.info
             info2 == PushTargets(info1, f, fs[f].elems,
                                  TargetMatches(fs[f].elems, 1))
         IN [w EXCEPT !.info = info2,
                      !.stack[Len(w.stack)] = Frame(f, "imports", 1)]

\* importRegex.exec: the next import or include element at or after pos
RECURSIVE NextImport(_, _)
NextImport(elems, i) ==
    IF i > Len(elems) THEN 0
    ELSE IF elems[i].kind = "import" THEN i
    ELSE NextImport(elems, i + 1)

\* ImportStep resolving a relative reference against the directory of the
\* root build file
ImportStep_ResolveAgainstRoot(fs, w) ==
    LET top == Top(w)
        elems == fs[top.path].elems
        j == NextImport(elems, top.pos)
        w1 == [w EXCEPT !.stack[Len(w.stack)] = Frame(top.path, "imports", j + 1)]
    IN IF elems[j].file = <<>> THEN w1
       ELSE LET ref == elems[j].file[1]
                importPath == IF ref.abs THEN ref.segs
                              ELSE ResolveIn(Dirname(w.readLog[1]), ref.segs)
            IN EnterFile(w1, importPath)

\* one iteration of the loop over the directives: a directive without a
\* file attribute is passed over, a relative reference is resolved against
\* the directory of the file that holds the directive
ImportStep(fs, w) ==
    LET top == Top(w)
        elems == fs[top.path].elems
        j == NextImport(elems, top.pos)
        w1 == [w EXCEPT !.stack[Len(w.stack)] = Frame(top.path, "imports", j + 1)]
    IN IF elems[j].file = <<>> THEN w1
       ELSE LET ref == elems[j].file[1]
                importPath == IF ref.abs THEN ref.segs
                              ELSE ResolveIn(Dirname(top.path), ref.segs)
            IN EnterFile(w1, importPath)

\* the comparator of the sort in parseWithXml
LocaleCompare(a, b) == LocaleRank(a) - LocaleRank(b)

\* Array.prototype.sort with that comparator (stable)
RECURSIVE InsertSorted(_, _)
InsertSorted(sorted, t) ==
    IF sorted = <<>> THEN <<t>>
    ELSE IF LocaleCompare(t.name, Head(sorted).name) < 0 THEN <<t>> \o sorted
    ELSE <<Head(sorted)>> \o InsertSorted(Tail(sorted), t)

RECURSIVE SortTargets(_)
SortTargets(ts) ==
    IF ts = <<>> THEN <<>>
    ELSE InsertSorted(SortTargets(SubSeq(ts, 1, Len(ts) - 1)), ts[Len(ts)])

\* parseWithXml up to its first await
StartWalk(buildFilePath) ==
    EnterFile([IdleWalk EXCEPT !.info = EmptyBuildInfo(buildFilePath)], buildFilePath)

\* one step of a walk that has not returned to parseWithXml
WalkStep(fs, w) ==
    LET top == Top(w) IN
    IF top.phase = "read" THEN AfterRead(fs, w)
    ELSE IF NextImport(fs[top.path].elems, top.pos) = 0 THEN Pop(w)
    ELSE ImportStep(fs, w)

RECURSIVE RunWalk(_, _)
RunWalk(fs, w) == IF w.stack = <<>> THEN w ELSE RunWalk(fs, WalkStep(fs, w))

\* parseWithXml as a function of the file system: the descriptor it
\* resolves with
ParseWithXml(fs, buildFilePath) ==
    LET w == RunWalk(fs, StartWalk(buildFilePath)) IN
    [w.info EXCEPT !.targets = SortTargets(@)]

(***************************************************************************)
(* The Java parser process.  A chunk written to a stream is [by, kind]:    *)
(* by is "ant" for output made while Ant parses the project and "main" for *)
(* what AntParser.main prints; kind is "json" for a JSON document and      *)
(* "text" for anything else.  out and err say where System.out and         *)
(* System.err point: "original" (the process's stdout and stderr) or       *)
(* "captured" (the ByteArrayOutputStreams of parseBuildFile).              *)
(***************************************************************************)
\* number of times Ant prints during one parse
MaxAntPrints == 2

AntChunks == {[by |-> "ant", kind |-> "text"], [by |-> "ant", kind |-> "json"]}
JsonDocument == [by |-> "main", kind |-> "json"]
Message == [by |-> "main", kind |-> "text"]

\* the command lines the process is started with
JavaArgs == {<<>>} \cup {<<f>> : f \in Files}

\* code is the exit code, -1 while the process runs
IdleJava ==
    [pc |-> "idle", args |-> <<>>, out |-> "original", err |-> "original",
     stdout |-> <<>>, stderr |-> <<>>, capturedOut |-> <<>>, capturedErr |-> <<>>,
     prints |-> 0, code |-> -1]

\* System.exit(status)
Exit(j, status) == [j EXCEPT !.pc = "exited", !.code = status]

\* a print to System.out or System.err: the text goes where the stream
\* currently points
PrintTo(j, stream, chunk) ==
    IF stream = "out"
    THEN IF j.out = "original" THEN [j EXCEPT !.stdout = Append(@, chunk)]
         ELSE [j EXCEPT !.capturedOut = Append(@, chunk)]
    ELSE IF j.err = "original" THEN [j EXCEPT !.stderr = Append(@, chunk)]
         ELSE [j EXCEPT !.capturedErr = Append(@, chunk)]

\* the finally block of parseBuildFile
Restore(j) == [j EXCEPT !.out = "original", !.err = "original"]

\* DepSpec: the depends attribute of one target and the dependencies
\* computed from it
IdleDep == [pc |-> "idle", attr |-> <<>>, out |-> <<>>]

\* PanelSpec: an AntConfigurationPanel before its constructor has run.
\* buildInfo and html are <<>> for undefined and for the loading page,
\* <<v>> else; updates are the runs of _update, in the order they began
IdlePanel == [buildFilePath |-> FileA, buildInfo |-> <<>>, html |-> <<>>,
              disposed |-> FALSE, updates |-> <<>>]

\* TreeSpec: an AntTargetsProvider whose constructor has run.  buildFiles
\* and parsedBuildFiles are the fields; discovering counts the pending
\* findFiles calls; shown are the build file items of the last root
\* listing; expansions are the getChildren calls for build file items;
\* refreshes counts the refresh() calls; fresh are the build files no item
\* of which was expanded since the last refresh()
IdleTree == [buildFiles |-> {}, parsedBuildFiles |-> <<>>, discovering |-> 0,
             shown |-> {}, expansions |-> <<>>, refreshes |-> 0, fresh |-> {}]

\* WebSpec: the task editor page.  targets are the targets of the build
\* info the page was rendered from, as [name, isDefault]; checked are the
\* names whose checkbox is checked; selectedTargetsOrder is the variable of
\* the page's script, which the Execution Order list displays; posted is
\* <<>> or <<targets>>, the targets of the 'saveTask' message
IdleWeb == [isEdit |-> FALSE, targets |-> <<>>, checked |-> {},
            selectedTargetsOrder |-> <<>>, posted |-> <<>>]

\* TaskSpec: the stored task lists.  store gives the labels of the tasks
\* of the tasks.json of each workspace folder and of the workspace file;
\* hasWorkspaceFile: getWorkspaceFilePath() is defined; readOnly: the
\* tasks.json files that cannot be written; last: <<>> or the most recent
\* updateTask call, with the store before it and whether it threw; n
\* counts the calls
IdleTasks == [store |-> <<>>, hasWorkspaceFile |-> FALSE, readOnly |-> {},
              last |-> <<>>, n |-> 0]

(***************************************************************************)
(* State.                                                                  *)
(***************************************************************************)
VARIABLES
    files,    \* the file system: Files -> file
    walk,     \* XmlSpec: the fallback parse in progress
    xmlOut,   \* XmlSpec: [pc, info], info being what parseWithXml resolved with
    cache,    \* AntParserService.cache
    now,      \* Date.now()
    calls,    \* the parseBuildFile calls
    cleared,  \* the paths clearCache cleared and no call was made for since
    java,     \* JavaSpec: one run of the Java parser process
    dep,      \* DepSpec: one evaluation of the dependencies of a target
    panel,    \* PanelSpec: the configuration panel and its runs of _update
    tree,     \* TreeSpec: the targets tree provider
    web,      \* WebSpec: the task editor page
    tasks     \* TaskSpec: the stored task lists and the last updateTask call

vars == <<files, walk, xmlOut, cache, now, calls, cleared, java, dep, panel, tree, web, tasks>>

(***************************************************************************)
(* XmlSpec: one call of parseWithXml on the root build file FileA.         *)
(***************************************************************************)
XmlInit ==
    /\ files \in XmlFileSystems
    /\ walk = IdleWalk
    /\ xmlOut = [pc |-> "idle", info |-> EmptyBuildInfo(<<>>)]
    /\ cache = <<>>
    /\ now = 0
    /\ calls = <<>>
    /\ cleared = {}
    /\ java = IdleJava
    /\ dep = IdleDep
    /\ panel = IdlePanel
    /\ tree = IdleTree
    /\ web = IdleWeb
    /\ tasks = IdleTasks

\* parseWithXml is called
XmlStart ==
    /\ xmlOut.pc = "idle"
    /\ walk' = StartWalk(FileA)
    /\ xmlOut' = [xmlOut EXCEPT !.pc = "walking"]
    /\ UNCHANGED <<tasks, web, tree, panel, dep, java, files, cache, now, calls, cleared>>

\* fs.readFile settles
XmlRead ==
    /\ xmlOut.pc = "walking"
    /\ walk.stack # <<>>
    /\ Top(walk).phase = "read"
    /\ walk' = AfterRead(files, walk)
    /\ UNCHANGED <<tasks, web, tree, panel, dep, java, files, xmlOut, cache, now, calls, cleared>>

\* the loop over the directives finds one
XmlImport ==
    /\ xmlOut.pc = "walking"
    /\ walk.stack # <<>>
    /\ Top(walk).phase = "imports"
    /\ NextImport(files[Top(walk).path].elems, Top(walk).pos) # 0
    /\ walk' = ImportStep(files, walk)
    /\ UNCHANGED <<tasks, web, tree, panel, dep, java, files, xmlOut, cache, now, calls, cleared>>

\* the loop over the directives ends and parseXmlFile returns
XmlReturn ==
    /\ xmlOut.pc = "walking"
    /\ walk.stack # <<>>
    /\ Top(walk).phase = "imports"
    /\ NextImport(files[Top(walk).path].elems, Top(walk).pos) = 0
    /\ walk' = Pop(walk)
    /\ UNCHANGED <<tasks, web, tree, panel, dep, java, files, xmlOut, cache, now, calls, cleared>>

\* the outermost parseXmlFile has returned: sort and resolve
XmlFinish ==
    /\ xmlOut.pc = "walking"
    /\ walk.stack = <<>>
    /\ xmlOut' = [pc |-> "done",
                  info |-> [walk.info EXCEPT !.targets = SortTargets(@)]]
    /\ UNCHANGED <<tasks, web, tree, panel, dep, java, files, walk, cache, now, calls, cleared>>

XmlNext == XmlStart \/ XmlRead \/ XmlImport \/ XmlReturn \/ XmlFinish

XmlSpec == XmlInit /\ [][XmlNext]_vars

XmlCycleInit ==
    /\ files \in CycleFileSystems
    /\ walk = IdleWalk
    /\ xmlOut = [pc |-> "idle", info |-> EmptyBuildInfo(<<>>)]
    /\ cache = <<>>
    /\ now = 0
    /\ calls = <<>>
    /\ cleared = {}
    /\ java = IdleJava
    /\ dep = IdleDep
    /\ panel = IdlePanel
    /\ tree = IdleTree
    /\ web = IdleWeb
    /\ tasks = IdleTasks

\* every readFile settles and every continuation that is ready runs
XmlFairSpec == XmlCycleInit /\ [][XmlNext]_vars /\ WF_vars(XmlNext)

XmlTypeOK == xmlOut.pc \in {"idle", "walking", "done"}

(***************************************************************************)
(* Spec: the facade parseBuildFile, its cache, the child process of the    *)
(* Java tier, the clock and clearCache.                                    *)
(*                                                                         *)
(* A value a call resolves with is [keys, info]: keys are the properties   *)
(* the object has.  JSON.parse followed by the cast "as AntBuildInfo"      *)
(* checks nothing, so the Java tier may resolve with an object that lacks  *)
(* properties of AntBuildInfo.                                             *)
(***************************************************************************)
DescriptorKeys == {"projectName", "defaultTarget", "baseDir", "description",
                   "buildFile", "targets"}

Obj(info) == [keys |-> DescriptorKeys, info |-> info]
NoValue == [keys |-> {}, info |-> EmptyBuildInfo(<<>>)]

\* what the Java process prints for a build file it parsed
JavaInfo(buildFilePath) ==
    [projectName |-> "Demo", defaultTarget |-> "build",
     baseDir |-> Dirname(buildFilePath), description |-> "null",
     buildFile |-> buildFilePath,
     targets |-> <<[name |-> "build", description |-> NullDesc,
                    dependencies |-> <<>>, ifCondition |-> "null",
                    unlessCondition |-> "null", isDefault |-> TRUE]>>]

\* the chunks a child can write to its standard output: text that is no
\* JSON, a JSON object without the properties of a descriptor, and the
\* JSON document of a descriptor
Garbage == [json |-> FALSE, value |-> NoValue]
PartialDoc == [json |-> TRUE, value |-> [keys |-> {"projectName"},
                                         info |-> EmptyBuildInfo(<<>>)]]
FullDoc(buildFilePath) == [json |-> TRUE, value |-> Obj(JavaInfo(buildFilePath))]

Stdouts(buildFilePath) ==
    {<<>>, <<Garbage>>, <<PartialDoc>>, <<FullDoc(buildFilePath)>>,
     <<Garbage, FullDoc(buildFilePath)>>}

\* JSON.parse(stdout): the text is one JSON document, or it throws
JsonParses(stdout) == Len(stdout) = 1 /\ stdout[1].json
JsonParse(stdout) == stdout[1].value

\* the handler of the child's 'close' event: TRUE when it calls resolve
CloseResolves(code, stdout) == code = 0 /\ JsonParses(stdout)

\* the cache time-to-live, in milliseconds
cacheTimeout == 30000

\* the build files parseBuildFile is called for
CallPaths == {FileA, FileC}

\* the string '' as a path argument
EmptyString == <<>>
Truthy(str) == str # EmptyString

NoEntry == [present |-> FALSE, info |-> NoValue, timestamp |-> 0, by |-> 0]

\* CacheHit comparing the age in milliseconds with the timeout in seconds
CacheHit_TimeoutInSeconds(c, t, buildFilePath) ==
    /\ c[buildFilePath].present
    /\ t - c[buildFilePath].timestamp < cacheTimeout \div 1000

\* cache.get(buildFilePath) found an entry that has not expired
CacheHit(c, t, buildFilePath) ==
    /\ c[buildFilePath].present
    /\ t - c[buildFilePath].timestamp < cacheTimeout

\* cache.set(buildFilePath, {info, timestamp: Date.now()}); by names the
\* call that stored the entry
CacheSet(c, buildFilePath, value, t, id) ==
    [c EXCEPT ![buildFilePath] =
        [present |-> TRUE, info |-> value, timestamp |-> t, by |-> id]]

\* clearCache(buildFilePath?): arg is <<>> when the argument is omitted
CacheAfterClear(c, arg) ==
    IF arg # <<>> /\ Truthy(arg[1])
    THEN [c EXCEPT ![arg[1]] = NoEntry]
    ELSE [q \in DOMAIN c |-> NoEntry]

\* the file system the facade is checked on: FileA imports FileB, FileC
\* cannot be read
FacadeFileSystems ==
    {FileSystem(File(Project("Demo", <<"build">>), <<SelfT("Clean"), Imp(RefB)>>),
                File(ImportedProject, <<BodyT("build")>>),
                MissingFile)}

\* a parseBuildFile call.  pc: "idle" not made yet, "java" awaiting
\* parseWithJava, "xml" awaiting parseWithXml, "done" returned.
\* child: "none", "running", "errored" ('error' emitted), "closed".
\* cause: why parseWithJava rejected ("" while it has not): "launch" the
\* child emitted 'error', "exit" a non-zero exit code, "decode" JSON.parse
\* threw.
\* hit: the call was answered from the cache.  stale: the lookup found an
\* entry that had expired.  spawned and xmlRuns count the children spawned
\* and the fallback parses run for the call.
IdleCall ==
    [path |-> FileA, pc |-> "idle", child |-> "none", result |-> NoValue,
     hit |-> FALSE, stale |-> FALSE, spawned |-> 0, xmlRuns |-> 0, cause |-> ""]

Init ==
    /\ files \in FacadeFileSystems
    /\ walk = IdleWalk
    /\ xmlOut = [pc |-> "idle", info |-> EmptyBuildInfo(<<>>)]
    /\ cache = [q \in CallPaths |-> NoEntry]
    /\ now = 0
    /\ calls = [c \in 1..MaxCalls |-> IdleCall]
    /\ cleared = {}
    /\ java = IdleJava
    /\ dep = IdleDep
    /\ panel = IdlePanel
    /\ tree = IdleTree
    /\ web = IdleWeb
    /\ tasks = IdleTasks

\* StartState spawning the child a second time
StartState_SpawnsTwice(call, c, t, buildFilePath) ==
    LET made == [call EXCEPT !.path = buildFilePath] IN
    IF CacheHit(c, t, buildFilePath)
    THEN [made EXCEPT !.pc = "done", !.hit = TRUE, !.result = c[buildFilePath].info]
    ELSE [made EXCEPT !.pc = "java", !.child = "running", !.spawned = @ + 2,
                      !.stale = c[buildFilePath].present]

\* parseBuildFile from its entry to its first await
StartState(call, c, t, buildFilePath) ==
    LET made == [call EXCEPT !.path = buildFilePath] IN
    IF CacheHit(c, t, buildFilePath)
    THEN [made EXCEPT !.pc = "done", !.hit = TRUE, !.result = c[buildFilePath].info]
    ELSE [made EXCEPT !.pc = "java", !.child = "running", !.spawned = @ + 1,
                      !.stale = c[buildFilePath].present]

\* Start removing from the map the expired entry its lookup found
Start_EvictsExpiredEntry(c, buildFilePath) ==
    /\ calls[c].pc = "idle"
    /\ \A d \in 1..MaxCalls : d < c => calls[d].pc # "idle"
    /\ calls' = [calls EXCEPT ![c] = StartState(calls[c], cache, now, buildFilePath)]
    /\ cache' = IF cache[buildFilePath].present /\ ~CacheHit(cache, now, buildFilePath)
                THEN [cache EXCEPT ![buildFilePath] = NoEntry]
                ELSE cache
    /\ cleared' = cleared \ {buildFilePath}
    /\ UNCHANGED <<tasks, web, tree, panel, dep, java, files, walk, xmlOut, now>>

\* parseBuildFile(buildFilePath) is called: the cache lookup, and on a miss
\* parseWithJava up to the spawn of the child
Start(c, buildFilePath) ==
    /\ calls[c].pc = "idle"
    /\ \A d \in 1..MaxCalls : d < c => calls[d].pc # "idle"
    /\ calls' = [calls EXCEPT ![c] = StartState(calls[c], cache, now, buildFilePath)]
    /\ cleared' = cleared \ {buildFilePath}
    /\ UNCHANGED <<tasks, web, tree, panel, dep, java, files, walk, xmlOut, cache, now>>

\* the catch block of parseBuildFile up to the await of parseWithXml
CatchState(call, cause) == [call EXCEPT !.pc = "xml", !.cause = cause]

\* the child emits 'error' (it could not be launched): reject, and the
\* catch block of parseBuildFile runs
ChildError(c) ==
    /\ calls[c].child = "running"
    /\ calls[c].pc = "java"
    /\ calls' = [calls EXCEPT ![c] = [CatchState(calls[c], "launch")
                                               EXCEPT !.child = "errored"]]
    /\ UNCHANGED <<tasks, web, tree, panel, dep, java, files, walk, xmlOut, cache, now, cleared>>

\* the child emits 'close' with an exit code, after it wrote stdout.  A
\* promise that 'error' has settled ignores the second settlement.
ChildClose(c, code, stdout) ==
    /\ calls[c].child \in {"running", "errored"}
    /\ calls[c].child = "errored" => code # 0
    /\ IF calls[c].pc # "java"
       THEN /\ calls' = [calls EXCEPT ![c].child = "closed"]
            /\ UNCHANGED cache
       ELSE IF CloseResolves(code, stdout)
       THEN /\ calls' = [calls EXCEPT ![c].child = "closed", ![c].pc = "done",
                                      ![c].result = JsonParse(stdout)]
            /\ cache' = CacheSet(cache, calls[c].path, JsonParse(stdout), now, c)
       ELSE /\ calls' = [calls EXCEPT ![c] =
                          [CatchState(calls[c], IF code # 0 THEN "exit" ELSE "decode")
                              EXCEPT !.child = "closed"]]
            /\ UNCHANGED cache
    /\ UNCHANGED <<tasks, web, tree, panel, dep, java, files, walk, xmlOut, now, cleared>>

\* XmlResolved without the cache.set of the catch block
XmlResolved_NoCacheSet(c) ==
    /\ calls[c].pc = "xml"
    /\ calls' = [calls EXCEPT ![c].pc = "done",
                              ![c].result = Obj(ParseWithXml(files, calls[c].path)),
                              ![c].xmlRuns = @ + 1]
    /\ UNCHANGED <<tasks, web, tree, panel, dep, java, files, walk, xmlOut, now, cache, cleared>>

\* parseWithXml resolves: the rest of the catch block
XmlResolved(c) ==
    /\ calls[c].pc = "xml"
    /\ LET buildInfo == Obj(ParseWithXml(files, calls[c].path)) IN
       /\ calls' = [calls EXCEPT ![c].pc = "done", ![c].result = buildInfo,
                                 ![c].xmlRuns = @ + 1]
       /\ cache' = CacheSet(cache, calls[c].path, buildInfo, now, c)
    /\ UNCHANGED <<tasks, web, tree, panel, dep, java, files, walk, xmlOut, now, cleared>>

\* the arguments clearCache is called with: none, a build file, or ''
ClearArgs == {<<>>} \cup {<<q>> : q \in CallPaths \cup {EmptyString}}

\* clearCache is called, with a path or without an argument
ClearCache(arg) ==
    /\ cache' = CacheAfterClear(cache, arg)
    /\ cleared' = IF arg = <<>> \/ ~Truthy(arg[1]) THEN CallPaths
                  ELSE cleared \cup {arg[1]}
    /\ UNCHANGED <<tasks, web, tree, panel, dep, java, files, walk, xmlOut, now, calls>>

\* time passes
Tick ==
    /\ now + TickMs <= MaxNow
    /\ now' = now + TickMs
    /\ UNCHANGED <<tasks, web, tree, panel, dep, java, files, walk, xmlOut, cache, calls, cleared>>

Next ==
    \/ \E c \in 1..MaxCalls, q \in CallPaths : Start(c, q)
    \/ \E c \in 1..MaxCalls : ChildError(c)
    \/ \E c \in 1..MaxCalls, code \in {0, 1} :
          \E stdout \in Stdouts(calls[c].path) : ChildClose(c, code, stdout)
    \/ \E c \in 1..MaxCalls : XmlResolved(c)
    \/ \E arg \in ClearArgs : ClearCache(arg)
    \/ Tick

Spec == Init /\ [][Next]_vars

(***************************************************************************)
(* JavaSpec: one run of AntParser.main.                                    *)
(***************************************************************************)
JavaInit ==
    /\ files \in FacadeFileSystems
    /\ walk = IdleWalk
    /\ xmlOut = [pc |-> "idle", info |-> EmptyBuildInfo(<<>>)]
    /\ cache = <<>>
    /\ now = 0
    /\ calls = <<>>
    /\ cleared = {}
    /\ java = IdleJava
    /\ dep = IdleDep
    /\ panel = IdlePanel
    /\ tree = IdleTree
    /\ web = IdleWeb
    /\ tasks = IdleTasks

\* main from its entry to the redirection in parseBuildFile: the usage and
\* the existence checks, then setOut and setErr
JavaMain(args) ==
    /\ java.pc = "idle"
    /\ LET j == [java EXCEPT !.args = args] IN
       java' = IF Len(args) < 1 THEN Exit(PrintTo(j, "err", Message), 1)
               ELSE IF ~Readable(files, args[1]) THEN Exit(PrintTo(j, "err", Message), 1)
               ELSE [j EXCEPT !.pc = "parsing", !.out = "captured", !.err = "captured"]
    /\ UNCHANGED <<tasks, web, tree, panel, dep, files, walk, xmlOut, cache, now, calls, cleared>>

\* Ant, or a task of the build file, prints while the project is parsed
JavaAntPrints(stream, chunk) ==
    /\ java.pc = "parsing"
    /\ java.prints < MaxAntPrints
    /\ java' = [PrintTo(java, stream, chunk) EXCEPT !.prints = @ + 1]
    /\ UNCHANGED <<tasks, web, tree, panel, dep, files, walk, xmlOut, cache, now, calls, cleared>>

\* parseBuildFile returns the descriptor, through its finally block
JavaParseReturns ==
    /\ java.pc = "parsing"
    /\ java' = [Restore(java) EXCEPT !.pc = "parsed"]
    /\ UNCHANGED <<tasks, web, tree, panel, dep, files, walk, xmlOut, cache, now, calls, cleared>>

\* JavaParseThrows without the finally block
JavaParseThrows_NoFinally(kind) ==
    /\ java.pc = "parsing"
    /\ java' = Exit(PrintTo(java, "err", Message), 1)
    /\ UNCHANGED <<tasks, web, tree, panel, dep, files, walk, xmlOut, cache, now, calls, cleared>>

\* the parse throws: the finally block runs, then an Exception is caught
\* by main, which prints to System.err and exits with 1; an Error is not
\* caught, the JVM prints its stack trace to System.err and exits with 1
JavaParseThrows(kind) ==
    /\ java.pc = "parsing"
    /\ java' = Exit(PrintTo(Restore(java), "err", Message), 1)
    /\ UNCHANGED <<tasks, web, tree, panel, dep, files, walk, xmlOut, cache, now, calls, cleared>>

\* System.out.println(gson.toJson(buildInfo))
JavaPrintJson ==
    /\ java.pc = "parsed"
    /\ java' = [PrintTo(java, "out", JsonDocument) EXCEPT !.pc = "printed"]
    /\ UNCHANGED <<tasks, web, tree, panel, dep, files, walk, xmlOut, cache, now, calls, cleared>>

\* main returns and the process ends with exit code 0
JavaMainReturns ==
    /\ java.pc = "printed"
    /\ java' = Exit(java, 0)
    /\ UNCHANGED <<tasks, web, tree, panel, dep, files, walk, xmlOut, cache, now, calls, cleared>>

JavaNext ==
    \/ \E args \in JavaArgs : JavaMain(args)
    \/ \E stream \in {"out", "err"}, chunk \in AntChunks : JavaAntPrints(stream, chunk)
    \/ JavaParseReturns
    \/ \E kind \in {"exception", "error"} : JavaParseThrows(kind)
    \/ JavaPrintJson
    \/ JavaMainReturns

JavaSpec == JavaInit /\ [][JavaNext]_vars

(***************************************************************************)
(* DepSpec: the dependencies of one target, for every depends attribute.   *)
(***************************************************************************)
DepInit ==
    /\ files \in FacadeFileSystems
    /\ walk = IdleWalk
    /\ xmlOut = [pc |-> "idle", info |-> EmptyBuildInfo(<<>>)]
    /\ cache = <<>>
    /\ now = 0
    /\ calls = <<>>
    /\ cleared = {}
    /\ java = IdleJava
    /\ dep \in {[IdleDep EXCEPT !.attr = a] : a \in DepAttrs}
    /\ panel = IdlePanel
    /\ tree = IdleTree
    /\ web = IdleWeb
    /\ tasks = IdleTasks

\* the target is pushed with its dependencies
DepParse ==
    /\ dep.pc = "idle"
    /\ dep' = [dep EXCEPT !.pc = "done", !.out = Dependencies(dep.attr)]
    /\ UNCHANGED <<tasks, web, tree, panel, java, files, walk, xmlOut, cache, now, calls, cleared>>

DepNext == DepParse

DepSpec == DepInit /\ [][DepNext]_vars

(***************************************************************************)
(* PanelSpec: the configuration panel.  Every run of _update awaits one    *)
(* parseBuildFile call; the runs overlap when a message arrives while an   *)
(* earlier run awaits its parser.                                          *)
(***************************************************************************)
\* number of runs of _update, the one of the constructor included
MaxUpdates == 3

\* _update from its entry to the await of parseBuildFile, which returns the
\* cached descriptor or spawns the Java child
BeginUpdate(pn, c, t) ==
    IF CacheHit(c, t, pn.buildFilePath)
    THEN [pn EXCEPT !.buildInfo = <<c[pn.buildFilePath].info>>,
                    !.html = <<c[pn.buildFilePath].info>>,
                    !.updates = Append(@, [path |-> pn.buildFilePath, pc |-> "done",
                                           child |-> "none"])]
    ELSE [pn EXCEPT !.html = <<>>,
                    !.updates = Append(@, [path |-> pn.buildFilePath, pc |-> "java",
                                           child |-> "running"])]

\* the rest of _update once parseBuildFile has returned buildInfo to run r
EndUpdate(pn, r, buildInfo) ==
    [pn EXCEPT !.buildInfo = <<buildInfo>>, !.html = <<buildInfo>>,
               !.updates[r].pc = "done"]

\* the constructor: the fields, then _update
NewPanel(buildFilePath, c, t) ==
    BeginUpdate([IdlePanel EXCEPT !.buildFilePath = buildFilePath], c, t)

PanelInit ==
    /\ files \in FacadeFileSystems
    /\ walk = IdleWalk
    /\ xmlOut = [pc |-> "idle", info |-> EmptyBuildInfo(<<>>)]
    /\ cache = [q \in CallPaths |-> NoEntry]
    /\ now = 0
    /\ calls = <<>>
    /\ cleared = {}
    /\ java = IdleJava
    /\ dep = IdleDep
    /\ panel \in {NewPanel(p, cache, now) : p \in CallPaths}
    /\ tree = IdleTree
    /\ web = IdleWeb
    /\ tasks = IdleTasks

PanelOpen == ~panel.disposed /\ Len(panel.updates) < MaxUpdates

\* updateBuildFile(buildFilePath): createOrShow on the existing panel, or
\* the 'selectBuildFile' message
PanelUpdateBuildFile(buildFilePath) ==
    /\ PanelOpen
    /\ panel' = BeginUpdate([panel EXCEPT !.buildFilePath = buildFilePath], cache, now)
    /\ UNCHANGED <<tasks, web, tree, dep, java, files, walk, xmlOut, cache, now, calls, cleared>>

\* the 'updateBuildFilePath' message
PanelUpdateBuildFilePath(resolvedPath) ==
    /\ PanelOpen
    /\ panel' = IF resolvedPath # panel.buildFilePath
                THEN BeginUpdate([panel EXCEPT !.buildFilePath = resolvedPath], cache, now)
                ELSE panel
    /\ UNCHANGED <<tasks, web, tree, dep, java, files, walk, xmlOut, cache, now, calls, cleared>>

\* the 'refresh' message
PanelRefresh ==
    /\ PanelOpen
    /\ cache' = CacheAfterClear(cache, <<panel.buildFilePath>>)
    /\ panel' = BeginUpdate(panel, cache', now)
    /\ UNCHANGED <<tasks, web, tree, dep, java, files, walk, xmlOut, now, calls, cleared>>

\* the 'workspaceFolderChanged' message
PanelWorkspaceFolderChanged(resolvedBuildPath) ==
    /\ PanelOpen
    /\ cache' = CacheAfterClear(cache, <<>>)
    /\ panel' = BeginUpdate([panel EXCEPT !.buildFilePath = resolvedBuildPath], cache', now)
    /\ UNCHANGED <<tasks, web, tree, dep, java, files, walk, xmlOut, now, calls, cleared>>

\* the child of run r emits 'close': parseWithJava resolves and
\* parseBuildFile stores and returns, or it rejects and parseBuildFile
\* awaits the fallback
PanelChildClose(r, code, stdout) ==
    /\ panel.updates[r].child = "running"
    /\ IF CloseResolves(code, stdout)
       THEN /\ cache' = CacheSet(cache, panel.updates[r].path, JsonParse(stdout), now, r)
            /\ panel' = [EndUpdate(panel, r, JsonParse(stdout))
                            EXCEPT !.updates[r].child = "closed"]
       ELSE /\ panel' = [panel EXCEPT !.updates[r].child = "closed",
                                      !.updates[r].pc = "xml"]
            /\ UNCHANGED cache
    /\ UNCHANGED <<tasks, web, tree, dep, java, files, walk, xmlOut, now, calls, cleared>>

\* parseWithXml resolves for run r: parseBuildFile stores and returns
PanelXmlResolved(r) ==
    /\ panel.updates[r].pc = "xml"
    /\ LET buildInfo == Obj(ParseWithXml(files, panel.updates[r].path)) IN
       /\ cache' = CacheSet(cache, panel.updates[r].path, buildInfo, now, r)
       /\ panel' = EndUpdate(panel, r, buildInfo)
    /\ UNCHANGED <<tasks, web, tree, dep, java, files, walk, xmlOut, now, calls, cleared>>

\* dispose(): the panel is closed, by the user, by 'cancel' or after a save
PanelDispose ==
    /\ ~panel.disposed
    /\ panel' = [panel EXCEPT !.disposed = TRUE]
    /\ UNCHANGED <<tasks, web, tree, dep, java, files, walk, xmlOut, cache, now, calls, cleared>>

PanelNext ==
    \/ \E q \in CallPaths : PanelUpdateBuildFile(q)
    \/ \E q \in CallPaths : PanelUpdateBuildFilePath(q)
    \/ PanelRefresh
    \/ \E q \in CallPaths : PanelWorkspaceFolderChanged(q)
    \/ \E r \in 1..Len(panel.updates), code \in {0, 1} :
          \E stdout \in Stdouts(panel.updates[r].path) : PanelChildClose(r, code, stdout)
    \/ \E r \in 1..Len(panel.updates) : PanelXmlResolved(r)
    \/ PanelDispose

PanelSpec == PanelInit /\ [][PanelNext]_vars

(***************************************************************************)
(* TreeSpec: the targets tree provider.  The editor lists the root, the    *)
(* user expands build file items and asks for a refresh; an expansion      *)
(* awaits one parseBuildFile call unless the provider kept a result.       *)
(***************************************************************************)
\* number of getChildren calls for build file items
MaxExpansions == 3

\* number of refresh() calls
MaxRefreshes == 1

NotParsed == [q \in CallPaths |-> <<>>]

TreeInit ==
    /\ files \in FacadeFileSystems
    /\ walk = IdleWalk
    /\ xmlOut = [pc |-> "idle", info |-> EmptyBuildInfo(<<>>)]
    /\ cache = [q \in CallPaths |-> NoEntry]
    /\ now = 0
    /\ calls = <<>>
    /\ cleared = {}
    /\ java = IdleJava
    /\ dep = IdleDep
    /\ panel = IdlePanel
    /\ tree = [IdleTree EXCEPT !.parsedBuildFiles = NotParsed, !.discovering = 1]
    /\ web = IdleWeb
    /\ tasks = IdleTasks

\* findFiles resolves with the build files of the workspace: the rest of
\* discoverBuildFiles
TreeDiscovered ==
    /\ tree.discovering > 0
    /\ tree' = [tree EXCEPT !.discovering = @ - 1, !.buildFiles = CallPaths]
    /\ UNCHANGED <<tasks, web, dep, panel, java, files, walk, xmlOut, cache, now, calls, cleared>>

\* getChildren(): the root listing, which parses nothing
TreeGetRoot ==
    /\ tree.shown # tree.buildFiles
    /\ tree' = [tree EXCEPT !.shown = tree.buildFiles]
    /\ UNCHANGED <<tasks, web, dep, panel, java, files, walk, xmlOut, cache, now, calls, cleared>>

\* refresh()
TreeRefresh ==
    /\ tree.refreshes < MaxRefreshes
    /\ tree' = [tree EXCEPT !.buildFiles = {}, !.parsedBuildFiles = NotParsed,
                            !.discovering = @ + 1, !.refreshes = @ + 1,
                            !.fresh = CallPaths]
    /\ cache' = CacheAfterClear(cache, <<>>)
    /\ UNCHANGED <<tasks, web, dep, panel, java, files, walk, xmlOut, now, calls, cleared>>

\* a getChildren call for a build file item.  kept: answered from
\* parsedBuildFiles; hit: answered from the cache of the parser service;
\* after: the number of refresh() calls made before it
Expansion(t, c, n, buildFilePath) ==
    LET x == [path |-> buildFilePath, pc |-> "done", child |-> "none",
              kept |-> FALSE, hit |-> FALSE, after |-> t.refreshes] IN
    IF t.parsedBuildFiles[buildFilePath] # <<>> THEN [x EXCEPT !.kept = TRUE]
    ELSE IF CacheHit(c, n, buildFilePath) THEN [x EXCEPT !.hit = TRUE]
    ELSE [x EXCEPT !.pc = "java", !.child = "running"]

\* the editor does not ask again for the children of an item while it is
\* loading them
Loading(buildFilePath) ==
    \E k \in 1..Len(tree.expansions) :
        /\ tree.expansions[k].path = buildFilePath
        /\ tree.expansions[k].pc # "done"
        /\ tree.expansions[k].after = tree.refreshes

\* getChildren(element) for a build file item: up to the await of
\* parseBuildFile, or to the end when the result was kept or cached
TreeExpand(buildFilePath) ==
    /\ buildFilePath \in tree.shown
    /\ ~Loading(buildFilePath)
    /\ Len(tree.expansions) < MaxExpansions
    /\ LET x == Expansion(tree, cache, now, buildFilePath) IN
       tree' = [tree EXCEPT !.expansions = Append(@, x),
                            !.fresh = @ \ {buildFilePath},
                            !.parsedBuildFiles[buildFilePath] =
                                IF x.hit THEN <<cache[buildFilePath].info>> ELSE @]
    /\ UNCHANGED <<tasks, web, dep, panel, java, files, walk, xmlOut, cache, now, calls, cleared>>

\* parseBuildFile returned buildInfo to expansion k: parsedBuildFiles.set
TreeKeep(t, k, buildInfo) ==
    [t EXCEPT !.expansions[k].pc = "done",
              !.parsedBuildFiles[t.expansions[k].path] = <<buildInfo>>]

\* the child of expansion k emits 'close'
TreeChildClose(k, code, stdout) ==
    /\ tree.expansions[k].child = "running"
    /\ IF CloseResolves(code, stdout)
       THEN /\ cache' = CacheSet(cache, tree.expansions[k].path, JsonParse(stdout), now, k)
            /\ tree' = [TreeKeep(tree, k, JsonParse(stdout))
                           EXCEPT !.expansions[k].child = "closed"]
       ELSE /\ tree' = [tree EXCEPT !.expansions[k].child = "closed",
                                    !.expansions[k].pc = "xml"]
            /\ UNCHANGED cache
    /\ UNCHANGED <<tasks, web, dep, panel, java, files, walk, xmlOut, now, calls, cleared>>

\* parseWithXml resolves for expansion k
TreeXmlResolved(k) ==
    /\ tree.expansions[k].pc = "xml"
    /\ LET buildInfo == Obj(ParseWithXml(files, tree.expansions[k].path)) IN
       /\ cache' = CacheSet(cache, tree.expansions[k].path, buildInfo, now, k)
       /\ tree' = TreeKeep(tree, k, buildInfo)
    /\ UNCHANGED <<tasks, web, dep, panel, java, files, walk, xmlOut, now, calls, cleared>>

TreeNext ==
    \/ TreeDiscovered
    \/ TreeGetRoot
    \/ TreeRefresh
    \/ \E q \in CallPaths : TreeExpand(q)
    \/ \E k \in 1..Len(tree.expansions), code \in {0, 1} :
          \E stdout \in Stdouts(tree.expansions[k].path) : TreeChildClose(k, code, stdout)
    \/ \E k \in 1..Len(tree.expansions) : TreeXmlResolved(k)

TreeSpec == TreeInit /\ [][TreeNext]_vars

(***************************************************************************)
(* WebSpec: the task editor page, from its render by _getHtmlForWebview    *)
(* to the 'saveTask' message.                                              *)
(***************************************************************************)
\* number of targets of the task being edited
MaxEditTargets == 2

\* the build infos the page is rendered from: three targets, with and
\* without a default target
WebTargetLists ==
    {<<[name |-> "build", isDefault |-> d], [name |-> "Clean", isDefault |-> FALSE],
       [name |-> "dist", isDefault |-> FALSE]>> : d \in BOOLEAN}

\* editTask.targets: targets of the build file, and "gone", a target the
\* build file no longer has; no name twice
EditTargetLists ==
    {ts \in SeqsUpTo({"build", "Clean", "gone"}, MaxEditTargets) :
        ts # <<>> /\ \A i, j \in 1..Len(ts) : i # j => ts[i] # ts[j]}

Includes(seq, x) == \E k \in 1..Len(seq) : seq[k] = x

\* _getHtmlForWebview: selectedTargets is editTask?.targets || []
Render(isEdit, selectedTargets, targets) ==
    [isEdit |-> isEdit, targets |-> targets,
     checked |-> {targets[k].name : k \in {i \in 1..Len(targets) :
                     Includes(selectedTargets, targets[i].name)
                        \/ (~isEdit /\ targets[i].isDefault)}},
     selectedTargetsOrder |-> selectedTargets,
     posted |-> <<>>]

WebInit ==
    /\ files \in FacadeFileSystems
    /\ walk = IdleWalk
    /\ xmlOut = [pc |-> "idle", info |-> EmptyBuildInfo(<<>>)]
    /\ cache = <<>>
    /\ now = 0
    /\ calls = <<>>
    /\ cleared = {}
    /\ java = IdleJava
    /\ dep = IdleDep
    /\ panel = IdlePanel
    /\ tree = IdleTree
    /\ web \in {Render(FALSE, <<>>, ts) : ts \in WebTargetLists}
               \cup {Render(TRUE, sel, ts) : sel \in EditTargetLists, ts \in WebTargetLists}
    /\ tasks = IdleTasks

Filter(seq, x) == SelectSeq(seq, LAMBDA t : t # x)

\* handleCheckboxChange: the user clicks the checkbox of targetName
WebCheckboxChange(targetName) ==
    /\ web.posted = <<>>
    /\ \E k \in 1..Len(web.targets) : web.targets[k].name = targetName
    /\ web' = IF targetName \notin web.checked
              THEN [web EXCEPT !.checked = @ \cup {targetName},
                               !.selectedTargetsOrder =
                                   IF Includes(@, targetName) THEN @
                                   ELSE Append(@, targetName)]
              ELSE [web EXCEPT !.checked = @ \ {targetName},
                               !.selectedTargetsOrder = Filter(@, targetName)]
    /\ UNCHANGED <<tasks, dep, panel, tree, java, files, walk, xmlOut, cache, now, calls, cleared>>

Swap(seq, i, j) == [seq EXCEPT ![i] = seq[j], ![j] = seq[i]]

\* moveTarget(index, direction), indices counted from 1: the list shows a
\* button pair for every entry
WebMoveTarget(index, direction) ==
    /\ web.posted = <<>>
    /\ index \in 1..Len(web.selectedTargetsOrder)
    /\ LET newIndex == index + direction IN
       web' = IF newIndex < 1 \/ newIndex > Len(web.selectedTargetsOrder) THEN web
              ELSE [web EXCEPT !.selectedTargetsOrder = Swap(@, index, newIndex)]
    /\ UNCHANGED <<tasks, dep, panel, tree, java, files, walk, xmlOut, cache, now, calls, cleared>>

\* the click handler of saveTaskBtn, a task name being entered
WebSave ==
    /\ web.posted = <<>>
    /\ web' = IF Len(web.selectedTargetsOrder) = 0 THEN web
              ELSE [web EXCEPT !.posted = <<web.selectedTargetsOrder>>]
    /\ UNCHANGED <<tasks, dep, panel, tree, java, files, walk, xmlOut, cache, now, calls, cleared>>

WebNext ==
    \/ \E n \in {"build", "Clean", "dist"} : WebCheckboxChange(n)
    \/ \E i \in 1..(MaxEditTargets + 3), d \in {-1, 1} : WebMoveTarget(i, d)
    \/ WebSave

WebSpec == WebInit /\ [][WebNext]_vars

(***************************************************************************)
(* TaskSpec: updateTask on the task lists of two workspace folders and of  *)
(* the workspace file.  updateTask has no await: a call is one step.       *)
(***************************************************************************)
\* number of updateTask calls
MaxTaskCalls == 2

\* workspaceFolders, in order, and the workspace file
Folders == <<"f1", "f2">>
FolderSet == {Folders[k] : k \in 1..Len(Folders)}
WorkspaceFile == "ws"
Locations == FolderSet \cup {WorkspaceFile}

Labels == {"t1", "t2"}

\* the arguments of updateTask: the target is a folder, null (the
\* workspace file) or undefined; the source is a folder, '__workspace__'
\* or undefined
TargetArgs == FolderSet \cup {"null", "undefined"}
SourceArgs == FolderSet \cup {"__workspace__", "undefined"}

TaskStores ==
    {[l \in Locations |-> IF l = "f1" THEN a ELSE IF l = "f2" THEN b ELSE c] :
        a \in {<<>>, <<"t1">>, <<"t1", "t2">>}, b \in {<<>>, <<"t2">>},
        c \in {<<>>, <<"t1">>}}

TaskInit ==
    /\ files \in FacadeFileSystems
    /\ walk = IdleWalk
    /\ xmlOut = [pc |-> "idle", info |-> EmptyBuildInfo(<<>>)]
    /\ cache = <<>>
    /\ now = 0
    /\ calls = <<>>
    /\ cleared = {}
    /\ java = IdleJava
    /\ dep = IdleDep
    /\ panel = IdlePanel
    /\ tree = IdleTree
    /\ web = IdleWeb
    /\ tasks \in {[IdleTasks EXCEPT !.store = st, !.hasWorkspaceFile = h, !.readOnly = ro] :
                     st \in TaskStores, h \in BOOLEAN,
                     ro \in {{}, {"f2"}}}
    /\ ~tasks.hasWorkspaceFile => tasks.store[WorkspaceFile] = <<>>

\* tasks.findIndex(t => t.label === originalLabel), 0 when there is none
RECURSIVE FindIndexFrom(_, _, _)
FindIndexFrom(seq, label, i) ==
    IF i > Len(seq) THEN 0
    ELSE IF seq[i] = label THEN i
    ELSE FindIndexFrom(seq, label, i + 1)

FindIndex(seq, label) == FindIndexFrom(seq, label, 1)

\* tasks.splice(index, 1)
Splice(seq, index) == SubSeq(seq, 1, index - 1) \o SubSeq(seq, index + 1, Len(seq))

\* saveWorkspaceTasks(list): throws when there is no workspace file
SaveWorkspaceTasks(t, list) ==
    IF ~t.hasWorkspaceFile THEN [threw |-> TRUE, t |-> t]
    ELSE [threw |-> FALSE, t |-> [t EXCEPT !.store[WorkspaceFile] = list]]

\* fs.writeFileSync of the tasks.json of a folder
WriteTasksJson(t, folder, list) ==
    IF folder \in t.readOnly THEN [threw |-> TRUE, t |-> t]
    ELSE [threw |-> FALSE, t |-> [t EXCEPT !.store[folder] = list]]

\* the loop over foldersToSearch from position k: the first folder that
\* holds the label is written without the entry
RECURSIVE DeleteFromFolders(_, _, _, _)
DeleteFromFolders(t, foldersToSearch, k, originalLabel) ==
    IF k > Len(foldersToSearch) THEN [threw |-> FALSE, found |-> FALSE, t |-> t]
    ELSE LET folder == foldersToSearch[k]
             index == FindIndex(t.store[folder], originalLabel)
         IN IF index = 0
            THEN DeleteFromFolders(t, foldersToSearch, k + 1, originalLabel)
            ELSE LET w == WriteTasksJson(t, folder, Splice(t.store[folder], index)) IN
                 [threw |-> w.threw, found |-> TRUE, t |-> w.t]

\* updateTask, first part: delete from the source location
DeleteFromSource(t, originalLabel, source) ==
    IF source = "__workspace__"
    THEN LET index == FindIndex(t.store[WorkspaceFile], originalLabel) IN
         IF index = 0 THEN [threw |-> TRUE, t |-> t]
         ELSE SaveWorkspaceTasks(t, Splice(t.store[WorkspaceFile], index))
    ELSE LET d == DeleteFromFolders(t, IF source = "undefined" THEN Folders
                                       ELSE <<source>>, 1, originalLabel)
         IN IF d.threw THEN [threw |-> TRUE, t |-> d.t]
            ELSE IF ~d.found /\ source # "undefined" THEN [threw |-> TRUE, t |-> d.t]
            ELSE [threw |-> FALSE, t |-> d.t]

\* updateTask, second part: add to the target location
AddToTarget(t, label, target) ==
    IF target = "null"
    THEN SaveWorkspaceTasks(t, Append(t.store[WorkspaceFile], label))
    ELSE LET targetFolder == IF target = "undefined" THEN Folders[1] ELSE target IN
         WriteTasksJson(t, targetFolder, Append(t.store[targetFolder], label))

\* updateTask(originalLabel, taskConfig, target, source), taskConfig.label
\* being label
UpdateTaskResult(t, originalLabel, label, target, source) ==
    LET d == DeleteFromSource(t, originalLabel, source) IN
    IF d.threw THEN d ELSE AddToTarget(d.t, label, target)

TaskUpdate(originalLabel, label, target, source) ==
    /\ tasks.n < MaxTaskCalls
    /\ LET r == UpdateTaskResult(tasks, originalLabel, label, target, source) IN
       tasks' = [r.t EXCEPT !.n = @ + 1,
                            !.last = <<[before |-> tasks.store, threw |-> r.threw,
                                        originalLabel |-> originalLabel, label |-> label,
                                        target |-> target, source |-> source]>>]
    /\ UNCHANGED <<dep, panel, tree, web, java, files, walk, xmlOut, cache, now, calls, cleared>>

TaskNext ==
    \E originalLabel \in Labels, label \in Labels, target \in TargetArgs,
       source \in SourceArgs : TaskUpdate(originalLabel, label, target, source)

TaskSpec == TaskInit /\ [][TaskNext]_vars

(***************************************************************************)
(* Properties of the fallback parse.                                       *)
(***************************************************************************)
XmlDone == xmlOut.pc = "done"

\* the walk taken step by step ends with the descriptor ParseWithXml
\* computes in one go
XmlStepsAgreeWithParseWithXml ==
    XmlDone => xmlOut.info = ParseWithXml(files, FileA)

\* the names a file declares: one per target element that has a name
DeclaredNames(f) ==
    {files[f].elems[i].name[1] :
        i \in {k \in 1..Len(files[f].elems) :
                 files[f].elems[k].kind # "import" /\ files[f].elems[k].name # <<>>}}

\* the file has a directive whose reference resolves to path p
Imports(f, p) ==
    \E i \in 1..Len(files[f].elems) :
        /\ files[f].elems[i].kind = "import"
        /\ files[f].elems[i].file # <<>>
        /\ LET ref == files[f].elems[i].file[1] IN
           ResolveAbs(IF ref.abs THEN ref.segs ELSE Dirname(f) \o ref.segs) = p

TargetsNamed(info, n) == {k \in 1..Len(info.targets) : info.targets[k].name = n}

NoDuplicates(seq) == \A i, j \in 1..Len(seq) : i # j => seq[i] # seq[j]

\* C4: on every finite import graph, cycles included, the fallback parse
\* terminates with a result and no normalised path is read twice
C4_TerminatesReadOnce == [](NoDuplicates(walk.readLog)) /\ <>XmlDone

\* the root imports B and B imports the root back: the walk ended, having
\* read both once
C4_Witness ==
    /\ XmlDone
    /\ Imports(FileA, FileB) /\ Imports(FileB, FileA)
    /\ walk.readLog = <<FileA, FileB>>

\* C8: the descriptor of the fallback parser holds no two targets of one name
C8_UniqueNames ==
    XmlDone => \A i, j \in 1..Len(xmlOut.info.targets) :
                  i # j => xmlOut.info.targets[i].name # xmlOut.info.targets[j].name

\* "build" is declared twice in the root and once more in B, all scanned
C8_Witness ==
    /\ XmlDone
    /\ files[FileA].elems = <<BodyT("build"), BodyT("build"), Imp(RefB)>>
    /\ files[FileB].elems = <<BodyT("build")>>
    /\ walk.readLog = <<FileA, FileB>>
    /\ Cardinality(TargetsNamed(xmlOut.info, "build")) = 1

\* C10: a target is the default exactly when its name is the descriptor's
\* defaultTarget, so at most one target is the default
C10_IsDefaultIffNamed ==
    XmlDone =>
        /\ \A k \in 1..Len(xmlOut.info.targets) :
              xmlOut.info.targets[k].isDefault
                  <=> (xmlOut.info.targets[k].name = xmlOut.info.defaultTarget)
        /\ Cardinality({k \in 1..Len(xmlOut.info.targets) :
                           xmlOut.info.targets[k].isDefault}) <= 1

\* the default target of the root is declared by an imported file only, and
\* the root declares the name the imported file calls its default
C10_Witness ==
    /\ XmlDone
    /\ \E k \in 1..Len(xmlOut.info.targets) :
          /\ xmlOut.info.targets[k].isDefault
          /\ xmlOut.info.targets[k].description.file = FileB
    /\ \E k \in 1..Len(xmlOut.info.targets) :
          /\ xmlOut.info.targets[k].name = "Clean"
          /\ xmlOut.info.targets[k].description.file = FileA

\* C3 as claimed: when the root and the file B it imports both declare a
\* name, the result holds exactly one target of that name, with the fields
\* of a declaration of the root
C3_RootDeclarationWins ==
    (XmlDone /\ files[FileA].exists /\ files[FileB].exists /\ Imports(FileA, FileB))
    => \A n \in DeclaredNames(FileA) \cap DeclaredNames(FileB) :
          /\ Cardinality(TargetsNamed(xmlOut.info, n)) = 1
          /\ \A k \in TargetsNamed(xmlOut.info, n) :
                xmlOut.info.targets[k].description.file = FileA

\* C9 as claimed: without imports the result holds exactly the declared
\* names, in ascending alphabetical order
C9_ExactlyDeclaredSorted ==
    (XmlDone /\ files[FileA].exists
       /\ \A i \in 1..Len(files[FileA].elems) : files[FileA].elems[i].kind # "import")
    => /\ {xmlOut.info.targets[k].name : k \in 1..Len(xmlOut.info.targets)}
            = DeclaredNames(FileA)
       /\ \A i, j \in 1..Len(xmlOut.info.targets) :
             i < j => LocaleCompare(xmlOut.info.targets[i].name,
                                    xmlOut.info.targets[j].name) < 0

\* the default attribute of the root's project tag, <<>> when there is none
RootDefault ==
    IF files[FileA].exists /\ files[FileA].project.present
    THEN files[FileA].project.default ELSE <<>>

\* C11 as claimed: when the root declares no default target, or a default
\* that names no target of the result, no target of the result is the default
C11_NoDefaultWithoutDeclaredTarget ==
    (XmlDone /\ (RootDefault = <<>>
                  \/ TargetsNamed(xmlOut.info, RootDefault[1]) = {}))
    => \A k \in 1..Len(xmlOut.info.targets) : ~xmlOut.info.targets[k].isDefault

\* C12 as claimed: every target of the result has a non-empty name
C12_NamesNonEmpty ==
    XmlDone => \A k \in 1..Len(xmlOut.info.targets) : xmlOut.info.targets[k].name # ""

\* the files within d import or include directives of the root, passing
\* through readable files only
RECURSIVE WithinDepth(_)
WithinDepth(d) ==
    IF d = 0 THEN {FileA}
    ELSE LET inner == WithinDepth(d - 1) IN
         inner \cup {p \in Files : \E f \in inner : Readable(files, f) /\ Imports(f, p)}

Reachable == WithinDepth(Cardinality(Files))

ResultNames == {xmlOut.info.targets[k].name : k \in 1..Len(xmlOut.info.targets)}

\* C15 as claimed: when a reachable imported file cannot be read, the parse
\* still ends with a result, and the result holds the targets the root and
\* every other reachable readable file declare
C15_UnreadableImportSkipped ==
    (XmlDone /\ Readable(files, FileA)
       /\ \E p \in Reachable : ~Readable(files, p))
    => \A f \in Reachable : Readable(files, f) => DeclaredNames(f) \subseteq ResultNames

\* the values of the setting apacheAntManager.importDepth the claim names:
\* 0 and the default.  parseXmlFile reads no setting, so every behaviour is
\* a behaviour under each of them.
importDepthDefault == 2
ImportDepthSettings == {0, importDepthDefault}

\* C17 as claimed: no target of the result comes from a file deeper than
\* importDepth directives below the main file, and no such file is read
C17_ImportDepthRespected ==
    XmlDone =>
        \A importDepth \in ImportDepthSettings :
            /\ \A k \in 1..Len(xmlOut.info.targets) :
                  xmlOut.info.targets[k].description.file \in WithinDepth(importDepth)
            /\ \A i \in 1..Len(walk.readLog) :
                  walk.readLog[i] \in WithinDepth(importDepth)

\* C20: projectName, defaultTarget and baseDir are those of the root's
\* project tag, whatever the imported files declare; a field whose
\* attribute the root lacks keeps the value parseWithXml gave it
C20_ProjectFieldsFromRootOnly ==
    XmlDone =>
        LET p == IF Readable(files, FileA) THEN files[FileA].project ELSE NoProject IN
        /\ xmlOut.info.projectName = (IF p.name = <<>> THEN "" ELSE p.name[1])
        /\ xmlOut.info.defaultTarget = (IF p.default = <<>> THEN "" ELSE p.default[1])
        /\ xmlOut.info.baseDir = (IF p.basedir = <<>> THEN Dirname(FileA)
                                  ELSE ResolveIn(Dirname(FileA), p.basedir[1].segs))

\* the root's project tag has no name and a basedir, the file it imports
\* has a project tag with a name, a default and a basedir and was scanned
C20_Witness ==
    /\ XmlDone
    /\ files[FileA].exists /\ files[FileA].project.present
    /\ files[FileA].project.name = <<>> /\ files[FileA].project.basedir # <<>>
    /\ files[FileB].exists /\ files[FileB].project.name # <<>>
    /\ \E k \in 1..Len(xmlOut.info.targets) :
          xmlOut.info.targets[k].description.file = FileB
    /\ xmlOut.info.projectName = ""
    /\ xmlOut.info.baseDir = FileC

(***************************************************************************)
(* Properties of the facade.                                               *)
(***************************************************************************)
Made(c) == calls[c].pc # "idle"
Returned(c) == calls[c].pc = "done"

\* C1: when parseWithJava rejects, for whichever cause, parseBuildFile
\* awaits the fallback, and when the fallback resolves the call returns the
\* descriptor parseWithXml alone produces for the path and the cache holds
\* that descriptor for the path
C1_FallbackResultReturnedAndCached ==
    [][\A c \in 1..MaxCalls :
         /\ (calls[c].cause = "" /\ calls'[c].cause # "") => calls'[c].pc = "xml"
         /\ (calls[c].pc = "xml" /\ calls'[c].pc # "xml")
            => /\ calls'[c].pc = "done"
               /\ calls'[c].result = Obj(ParseWithXml(files, calls[c].path))
               /\ cache'[calls[c].path].present
               /\ cache'[calls[c].path].info = Obj(ParseWithXml(files, calls[c].path))
               /\ cache'[calls[c].path].timestamp = now]_vars

\* the child printed text that is no JSON, and the call returned the
\* targets of FileA and of the file it imports, which the cache now holds
C1_Witness ==
    \E c \in 1..MaxCalls :
        /\ Returned(c) /\ calls[c].cause = "decode" /\ calls[c].path = FileA
        /\ Len(calls[c].result.info.targets) = 2
        /\ cache[FileA].by = c
        /\ cache[FileA].info = calls[c].result

\* C2 as claimed: with the Java tier failed and the root file unreadable,
\* the call returns no descriptor
C2_UnreadableRootReturnsNothing ==
    \A c \in 1..MaxCalls :
        (calls[c].cause # "" /\ ~Readable(files, calls[c].path)) => ~Returned(c)

\* the step is the call of parseBuildFile number c
Starts(c) == calls[c].pc = "idle" /\ calls'[c].pc # "idle"

\* C5: a call made while the entry a completed call stored for the path is
\* still the path's entry and is less than cacheTimeout old returns at once
\* what that call returned, and starts neither parser
C5_SecondCallAnsweredFromCache ==
    [][\A c2 \in 1..MaxCalls : Starts(c2) =>
         LET entry == cache[calls'[c2].path] IN
         (entry.present /\ now - entry.timestamp < cacheTimeout)
         => /\ calls'[c2].pc = "done"
            /\ calls'[c2].result = calls[entry.by].result
            /\ calls'[c2].spawned = 0
            /\ calls'[c2].xmlRuns = 0
            /\ calls'[c2].child = "none"]_vars

\* the first call parsed and stored, and 15 seconds later the entry is
\* still its entry and the second call has been answered from it
C5_Witness ==
    /\ Returned(1) /\ ~calls[1].hit
    /\ Returned(2) /\ calls[2].hit
    /\ calls[2].path = calls[1].path
    /\ calls[2].result = calls[1].result
    /\ cache[calls[1].path].by = 1
    /\ now - cache[calls[1].path].timestamp = TickMs

\* C6 as claimed: the first call made for a path after clearCache(path) or
\* clearCache() spawns the Java child and is not answered from the cache
C6_NextCallAfterClearSpawns ==
    [][\A c \in 1..MaxCalls :
         (Starts(c) /\ calls'[c].path \in cleared)
         => (calls'[c].pc = "java" /\ calls'[c].spawned = 1)]_vars

\* C7 as claimed: parseWithJava resolves only with a complete descriptor
C7_JavaResolvesOnlyComplete ==
    \A c \in 1..MaxCalls :
        (Returned(c) /\ ~calls[c].hit /\ calls[c].cause = "")
        => calls[c].result.keys = DescriptorKeys

\* C13: a lookup answers from the cache exactly when the path has an entry
\* less than cacheTimeout old, and changes nothing in the map; an entry
\* leaves the map or changes only when clearCache removes it or a call that
\* finishes for the same path stores over it
C13_ExpiredEntryAbsentButKept ==
    [][/\ \A c \in 1..MaxCalls : Starts(c) =>
            LET entry == cache[calls'[c].path] IN
            /\ calls'[c].hit <=> (entry.present /\ now - entry.timestamp < cacheTimeout)
            /\ ~calls'[c].hit => calls'[c].pc = "java"
            /\ cache' = cache
       /\ \A q \in CallPaths :
            (cache[q].present /\ cache'[q] # cache[q])
            => \/ ~cache'[q].present /\ q \in cleared' /\ calls' = calls
               \/ /\ cache'[q].present /\ cache'[q].timestamp = now
                  /\ \E c \in 1..MaxCalls :
                        /\ calls[c].pc # "done" /\ calls'[c].pc = "done"
                        /\ calls[c].path = q /\ cache'[q].by = c]_vars

\* the second call found the 30 seconds old entry of the first, spawned a
\* child, and the entry is still in the map
C13_Witness ==
    /\ Returned(1) /\ calls[2].stale /\ calls[2].pc = "java"
    /\ calls[2].path = calls[1].path
    /\ cache[calls[2].path].present /\ cache[calls[2].path].by = 1
    /\ now - cache[calls[2].path].timestamp = cacheTimeout

\* C14 as claimed: clearCache(p) removes the entry of p and leaves every
\* other entry as it is, for every string p; clearCache() removes all
C14_ClearRemovesThatPathOnly ==
    /\ \A q \in CallPaths : ~CacheAfterClear(cache, <<>>)[q].present
    /\ \A p \in CallPaths \cup {EmptyString} :
          LET after == CacheAfterClear(cache, <<p>>) IN
          \A q \in CallPaths : IF q = p THEN ~after[q].present
                                ELSE after[q] = cache[q]

\* the default of the setting apacheAntManager.useJavaParser; no behaviour
\* of the model changes the configuration
useJavaParserDefault == FALSE

\* C16 as claimed: with useJavaParser at its default, a call spawns no Java
\* child and a call not answered from the cache runs the XML parser
C16_DefaultSettingSpawnsNoJava ==
    ~useJavaParserDefault =>
        \A c \in 1..MaxCalls :
            /\ calls[c].spawned = 0
            /\ (Returned(c) /\ ~calls[c].hit) => calls[c].xmlRuns = 1

C18_StdoutOneDocumentOrNothing ==
    /\ java.pc = "exited" =>
          \/ java.code = 0 /\ java.stdout = <<JsonDocument>>
          \/ java.code # 0 /\ java.code # -1 /\ java.stdout = <<>>
    /\ \A i \in 1..Len(java.stdout) : java.stdout[i].by # "ant"
    /\ java.pc \in {"parsed", "printed", "exited"} =>
          java.out = "original" /\ java.err = "original"
    /\ (java.pc = "exited" /\ java.code # 0) => java.stderr # <<>>

\* Ant printed a JSON document and a text to System.out during the parse,
\* and the process ended with 0 and its own document alone on stdout
C18_Witness ==
    /\ java.pc = "exited" /\ java.code = 0
    /\ java.capturedOut = <<[by |-> "ant", kind |-> "json"], [by |-> "ant", kind |-> "text"]>>
    /\ java.stdout = <<JsonDocument>>

(***************************************************************************)
(* Properties of the import walk.                                          *)
(***************************************************************************)
ReadPaths == {walk.readLog[k] : k \in 1..Len(walk.readLog)}

\* C22: every path the walk requested after the root is the reference of a
\* directive of a file read before it, resolved against the directory of
\* that file, and every file so referred to by a file that was read has
\* been requested
C22_RelativeToContainingFile ==
    XmlDone =>
      /\ \A k \in 2..Len(walk.readLog) :
            \E j \in 1..(k - 1) :
               /\ Readable(files, walk.readLog[j])
               /\ Imports(walk.readLog[j], walk.readLog[k])
      /\ \A f \in ReadPaths : Readable(files, f) =>
            \A p \in Files : Imports(f, p) => p \in ReadPaths

\* the root imports sub/c only, sub/c imports ../b, and the result holds a
\* target declared by /r/b
C22_Witness ==
    /\ XmlDone
    /\ Imports(FileA, FileC) /\ ~Imports(FileA, FileB)
    /\ Readable(files, FileC) /\ files[FileC].elems = <<Imp(RefUpB)>>
    /\ walk.readLog = <<FileA, FileC, FileB>>
    /\ \E k \in 1..Len(xmlOut.info.targets) :
          xmlOut.info.targets[k].description.file = FileB

\* the path a directive refers to, <<>> when it has no file attribute
Referred(f, i) ==
    LET e == files[f].elems[i] IN
    IF e.kind # "import" \/ e.file = <<>> THEN <<>>
    ELSE <<ResolveAbs(IF e.file[1].abs THEN e.file[1].segs
                      ELSE Dirname(f) \o e.file[1].segs)>>

\* the depth-first order of the import graph: a file comes before the files
\* its directives refer to, which follow in document order
RECURSIVE DfsVisit(_, _), DfsDirectives(_, _, _)
DfsVisit(order, f) ==
    IF \E k \in 1..Len(order) : order[k] = f THEN order
    ELSE IF ~Readable(files, f) THEN Append(order, f)
    ELSE DfsDirectives(Append(order, f), f, 1)

DfsDirectives(order, f, i) ==
    IF i > Len(files[f].elems) THEN order
    ELSE DfsDirectives(IF Referred(f, i) = <<>> THEN order
                       ELSE DfsVisit(order, Referred(f, i)[1]), f, i + 1)

DfsOrder == DfsVisit(<<>>, FileA)

\* the positions in the depth-first order of the files that declare name n
Declaring(n) ==
    {k \in 1..Len(DfsOrder) :
        Readable(files, DfsOrder[k]) /\ n \in DeclaredNames(DfsOrder[k])}

AllDeclaredNames ==
    UNION {DeclaredNames(f) : f \in {g \in Files : Readable(files, g)}}

\* C27 as claimed: of a name declared in files of the import graph the
\* result holds one target, the declaration of the declaring file that
\* comes first in the depth-first order
C27_FirstReachedDeclarationWins ==
    XmlDone =>
      \A n \in AllDeclaredNames : Declaring(n) # {} =>
         LET first == CHOOSE k \in Declaring(n) : \A l \in Declaring(n) : k <= l IN
         /\ Cardinality(TargetsNamed(xmlOut.info, n)) = 1
         /\ \A k \in TargetsNamed(xmlOut.info, n) :
               xmlOut.info.targets[k].description.file = DfsOrder[first]

(***************************************************************************)
(* Properties of the cache under invalidation and failure.                 *)
(***************************************************************************)
\* the step is the return of call c from a parser it awaited
Completes(c) == calls[c].pc \in {"java", "xml"} /\ calls'[c].pc = "done"

\* C25 as claimed: a call that was in flight when clearCache removed the
\* entry of its path does not store its result when it completes
C25_InFlightCallDoesNotRestoreEntry ==
    [][\A c \in 1..MaxCalls :
         (Completes(c) /\ calls[c].path \in cleared)
         => cache'[calls[c].path] = cache[calls[c].path]]_vars

\* C26 as claimed: a call whose fallback could not read the root file
\* stores no entry for the path
C26_UnreadableRootNotCached ==
    [][\A c \in 1..MaxCalls :
         (calls[c].pc = "xml" /\ calls'[c].pc = "done"
            /\ ~Readable(files, calls[c].path))
         => cache'[calls[c].path] = cache[calls[c].path]]_vars

(***************************************************************************)
(* Properties of the dependencies of a target.                             *)
(***************************************************************************)
\* C21 as claimed: the dependencies are the trimmed entries of the depends
\* attribute in declared order, and a target without the attribute or with
\* an empty depends string has no dependencies
C21_DependenciesSplitAndTrimmed ==
    dep.pc = "done" =>
        IF dep.attr = <<>> \/ dep.attr[1] = <<>> THEN dep.out = <<>>
        ELSE /\ Len(dep.out) = Len(Split(dep.attr[1]))
             /\ \A k \in 1..Len(dep.out) :
                   /\ dep.out[k] = Trim(Split(dep.attr[1])[k])
                   /\ dep.out[k] = <<>> \/ (dep.out[k][1] # " " /\ dep.out[k][Len(dep.out[k])] # " ")

(***************************************************************************)
(* Properties of the configuration panel.                                  *)
(***************************************************************************)
\* C23 as claimed: once the panel is disposed, no Java child of a parse it
\* requested is running
C23_NoChildAfterDispose ==
    panel.disposed => \A r \in 1..Len(panel.updates) : panel.updates[r].child # "running"

\* what parseBuildFile can return for a path: a document the Java child
\* printed for it, or the descriptor of the fallback
ParseResults(buildFilePath) ==
    {JsonParse(stdout) : stdout \in {o \in Stdouts(buildFilePath) : CloseResolves(0, o)}}
        \cup {Obj(ParseWithXml(files, buildFilePath))}

\* C28 as claimed: when every run of _update has settled, the panel holds
\* and shows a parse result of its current build file
C28_SettledPanelShowsCurrentFile ==
    (~panel.disposed /\ \A r \in 1..Len(panel.updates) : panel.updates[r].pc = "done")
    => /\ panel.buildInfo # <<>>
       /\ panel.buildInfo[1] \in ParseResults(panel.buildFilePath)
       /\ panel.html = panel.buildInfo

(***************************************************************************)
(* Properties of the targets tree provider.                                *)
(***************************************************************************)
\* the step is a getChildren call for an item of the build file
Expands(buildFilePath) ==
    /\ Len(tree'.expansions) = Len(tree.expansions) + 1
    /\ tree'.expansions[Len(tree'.expansions)].path = buildFilePath

\* the expansions made since the last refresh() that ran a parser
ParsedSinceRefresh(buildFilePath) ==
    {k \in 1..Len(tree.expansions) :
        /\ tree.expansions[k].path = buildFilePath
        /\ tree.expansions[k].after = tree.refreshes
        /\ ~tree.expansions[k].kept /\ ~tree.expansions[k].hit}

\* C24 as claimed: a parser is started only by the expansion of an item,
\* at most once for a build file between two refreshes, and the first
\* expansion of a build file after refresh() starts a parser
C24_ParsedOnExpansionOncePerRefresh ==
    [][/\ \A q \in CallPaths : Cardinality(ParsedSinceRefresh(q))' <= 1
       /\ \A k \in 1..Len(tree.expansions) :
             tree'.expansions[k].child = "running" => tree.expansions[k].child = "running"
       /\ \A q \in CallPaths :
             (Expands(q) /\ q \in tree.fresh)
             => LET x == tree'.expansions[Len(tree'.expansions)] IN
                ~x.kept /\ ~x.hit /\ x.child = "running"]_vars

(***************************************************************************)
(* Properties of the task editor page.                                     *)
(***************************************************************************)
\* the Execution Order list of page w holds exactly the checked targets,
\* each once
OrderIsChecked(w) ==
    /\ {w.selectedTargetsOrder[k] : k \in 1..Len(w.selectedTargetsOrder)} = w.checked
    /\ NoDuplicates(w.selectedTargetsOrder)

\* C29 as claimed: from the initial render on, the Execution Order list
\* holds exactly the checked targets, each once; a move swaps two adjacent
\* entries; Save Task sends the list as displayed
C29_OrderListIsCheckedTargets ==
    [][/\ OrderIsChecked(web) /\ OrderIsChecked(web')
       /\ (web'.checked = web.checked /\ web'.posted = web.posted)
          => \E i \in 1..(Len(web.selectedTargetsOrder) - 1) :
                web'.selectedTargetsOrder = Swap(web.selectedTargetsOrder, i, i + 1)
       /\ web'.posted # web.posted
          => web'.posted = <<web.selectedTargetsOrder>> /\ OrderIsChecked(web)]_vars

(***************************************************************************)
(* Properties of updateTask.                                               *)
(***************************************************************************)
\* the store after a call that completed: the first entry labelled
\* originalLabel is gone from location src (from nowhere when src is
\* "none") and label is appended at location tgt
Moved(before, originalLabel, label, src, tgt) ==
    LET removed == IF src = "none" THEN before
                   ELSE [before EXCEPT ![src] = Splice(@, FindIndex(@, originalLabel))]
    IN [removed EXCEPT ![tgt] = Append(@, label)]

\* the locations a source argument lets the entry be removed from
SourcesOf(before, originalLabel, source) ==
    IF source = "__workspace__" THEN {WorkspaceFile}
    ELSE IF source # "undefined" THEN {source}
    ELSE IF \E f \in FolderSet : FindIndex(before[f], originalLabel) # 0
         THEN {f \in FolderSet : FindIndex(before[f], originalLabel) # 0}
         ELSE {"none"}

\* C30 as claimed: a call of updateTask that threw left every task list
\* as it was, and a call that completed removed the entry from its source
\* location and appended the new configuration at the target location
C30_UpdateTaskAllOrNothing ==
    tasks.last # <<>> =>
      LET l == tasks.last[1] IN
      IF l.threw THEN tasks.store = l.before
      ELSE \E src \in SourcesOf(l.before, l.originalLabel, l.source) :
             /\ src # "none" => FindIndex(l.before[src], l.originalLabel) # 0
             /\ tasks.store =
                  Moved(l.before, l.originalLabel, l.label, src,
                        IF l.target = "null" THEN WorkspaceFile
                        ELSE IF l.target = "undefined" THEN Folders[1] ELSE l.target)

====
